---------------------------- MODULE Spec2Model ----------------------------
(***************************************************************************)
(* A model of src/numeral_systems.rs: NumeralSystem::apply (the validator) *)
(* and Display for RepresentedNumber (the renderer).                       *)
(*                                                                         *)
(* A run picks a numeral system, a number and a build, calls apply, and,   *)
(* when apply hands back a RepresentedNumber, formats it to a string.      *)
(*                                                                         *)
(* Strings are TLA+ strings; a char is a string. A char outside ASCII is   *)
(* written as an ASCII stand-in (the module cannot hold it): "(7)" for the *)
(* circled digit seven, "~" for the combining overline U+0305.             *)
(***************************************************************************)
EXTENDS Integers, Sequences, FiniteSets, TLC

VARIABLES
    system,           \* the NumeralSystem value apply is called on
    number,           \* the u64 argument of apply
    bits,             \* the width of the machine word (u64: 64 in the program)
    overflow_checks,  \* the build: TRUE panics on overflow (debug), FALSE wraps (release)
    pc,               \* "start" -> "applied" -> "formatted"
    result,           \* what apply returned
    rendered          \* what to_string (Display::fmt) did

vars == <<system, number, bits, overflow_checks, pc, result, rendered>>

---------------------------------------------------------------------------
(* Bounds of the model. *)

\* Width of the machine word in the exhaustive specification (the program's is 64).
WordBits == 6
\* The generic symbol tables hold 0..MaxSymbols symbols.
MaxSymbols == 4
\* Width of the machine word in the catalogue specification: wide enough that no
\* run of it wraps, as none wraps in 64 bits.
WideBits == 24
\* The largest number rendered in ARABIC, the Latin letters, the Roman numerals,
\* SYMBOL and the two fixed tables in the catalogue specification.
MaxArabic == 9999
MaxLatin == 18278
MaxRoman == 1994
MaxSymbolic == 13
MaxFixed == 52

---------------------------------------------------------------------------
(* Machine arithmetic on the unsigned word. A value below zero is a trap   *)
(* (a panic raised by the operation); every operation hands on the trap of *)
(* an operand.                                                             *)

Modulus == 2 ^ bits

ArithmeticOverflow == 0 - 1
DivideByZero == 0 - 2
BadLogarithm == 0 - 3

TrapReason(t) ==
    CASE t = ArithmeticOverflow -> "arithmetic overflow"
      [] t = DivideByZero -> "divide by zero"
      [] t = BadLogarithm -> "argument of integer logarithm must be positive"
      [] OTHER -> "none"

\* On overflow: a panic with overflow checks, the wrapped value without.
Wrap(v) == IF overflow_checks THEN ArithmeticOverflow ELSE v % Modulus

Add(a, b) ==
    IF a < 0 THEN a ELSE IF b < 0 THEN b
    ELSE IF a + b < Modulus THEN a + b ELSE Wrap(a + b)

Sub(a, b) ==
    IF a < 0 THEN a ELSE IF b < 0 THEN b
    ELSE IF a >= b THEN a - b ELSE Wrap(a - b + Modulus)

\* a * b modulo the word: the product itself where it is small enough to be
\* computed, and by doubling elsewhere (no intermediate value leaves the word
\* by more than a factor of three).
RECURSIVE WrappingMul(_, _)
WrappingMul(a, b) ==
    IF b = 0 THEN 0
    ELSE IF bits <= 15 THEN (a * b) % Modulus
    ELSE (2 * WrappingMul(a, b \div 2) + (IF b % 2 = 1 THEN a ELSE 0)) % Modulus

Mul(a, b) ==
    IF a < 0 THEN a ELSE IF b < 0 THEN b
    ELSE IF a = 0 \/ b <= (Modulus - 1) \div a THEN a * b
    ELSE Wrap(WrappingMul(a, b))

Div(a, b) ==
    IF a < 0 THEN a ELSE IF b < 0 THEN b
    ELSE IF b = 0 THEN DivideByZero ELSE a \div b

\* u64::pow: by repeated multiplication; it overflows exactly when the power does.
RECURSIVE Pow(_, _)
Pow(base, exp) ==
    IF base < 0 THEN base ELSE IF exp < 0 THEN exp
    ELSE IF exp = 0 THEN 1 ELSE Mul(Pow(base, exp - 1), base)

\* The bits of a u32, the type of ilog's result and of pow's exponent.
U32Bits == 32

\* One more bit of an all-ones exponent: acc^2 * base modulo the word.
PowStep(acc, base) == WrappingMul(WrappingMul(acc, acc), base)

\* k steps from acc, the first half of them before the second.
RECURSIVE PowSteps(_, _, _)
PowSteps(acc, base, k) ==
    IF k = 0 THEN acc
    ELSE IF k = 1 THEN PowStep(acc, base)
    ELSE LET mid == PowSteps(acc, base, k \div 2)
         IN IF mid < 0 THEN mid ELSE PowSteps(mid, base, k - k \div 2)

\* base.pow(2^k - 1) without overflow checks, which is base^(2^k - 1) modulo the
\* word: base^(2^k - 1) = (base^(2^(k-1) - 1))^2 * base, from base^0 = 1.
PowAllOnes(base, k) == PowSteps(1, base, k)

\* u64::ilog: the logarithm rounded down; panics on zero and on a base below 2.
RECURSIVE Ilog(_, _)
Ilog(x, base) ==
    IF x < 0 THEN x ELSE IF base < 0 THEN base
    ELSE IF x = 0 \/ base < 2 THEN BadLogarithm
    ELSE IF x < base THEN 0 ELSE 1 + Ilog(x \div base, base)

\* u64::div_ceil: the quotient rounded up.
DivCeil(a, b) ==
    IF b = 0 THEN DivideByZero
    ELSE IF a % b > 0 THEN (a \div b) + 1 ELSE a \div b

\* `as usize`: the cast truncates to the pointer width, which is the word's
\* width on the 64-bit targets modelled here.
AsUsize(x) == x % Modulus

---------------------------------------------------------------------------
(* NumeralSystem: the enum's variants, as records of one shape.            *)

Variant(kind, symbols) ==
    [kind |-> kind, symbols |-> symbols, numerals |-> <<>>,
     variant |-> "", chinese_case |-> ""]

Positional(digits) == Variant("Positional", digits)
Bijective(digits) == Variant("Bijective", digits)
Symbolic(symbols) == Variant("Symbolic", symbols)
ZeroableFixed(symbols) == Variant("ZeroableFixed", symbols)
NonZeroableFixed(symbols) == Variant("NonZeroableFixed", symbols)

\* numerals: a sequence of <<numeral, weight>> pairs.
Additive(numerals) ==
    [kind |-> "Additive", symbols |-> <<>>, numerals |-> numerals,
     variant |-> "", chinese_case |-> ""]

Chinese(variant, case) ==
    [kind |-> "Chinese", symbols |-> <<>>, numerals |-> <<>>,
     variant |-> variant, chinese_case |-> case]

---------------------------------------------------------------------------
(* NumeralSystem::apply                                                    *)

Ok(sys, n) == [tag |-> "Ok", err |-> "None", system |-> sys, number |-> n]
Err(e) == [tag |-> "Err", err |-> e, system |-> Chinese("", ""), number |-> 0]
NotCalled == [tag |-> "None", err |-> "None", system |-> Chinese("", ""), number |-> 0]

\* matches!(numerals.last(), Some((_, 0)))
LastIsZero(numerals) ==
    Len(numerals) > 0 /\ numerals[Len(numerals)][2] = 0

\* Without the check for zero.
apply_Nonzero_unchecked(sys, n) == Ok(sys, n)

apply_Nonzero(sys, n) ==
    IF n = 0 THEN Err("Zero") ELSE Ok(sys, n)

apply_Additive(sys, n) ==
    IF ~LastIsZero(sys.numerals) THEN Err("Zero") ELSE Ok(sys, n)

\* The size check off by one.
apply_ZeroableFixed_inclusive(sys, n) ==
    IF AsUsize(n) > Len(sys.symbols) THEN Err("TooLarge") ELSE Ok(sys, n)

apply_ZeroableFixed(sys, n) ==
    IF AsUsize(n) >= Len(sys.symbols) THEN Err("TooLarge") ELSE Ok(sys, n)

apply_NonZeroableFixed(sys, n) ==
    IF n = 0 THEN Err("Zero")
    ELSE IF AsUsize(n) > Len(sys.symbols) THEN Err("TooLarge")
    ELSE Ok(sys, n)

apply(sys, n) ==
    CASE sys.kind \in {"Positional", "Chinese"} -> Ok(sys, n)
      [] sys.kind \in {"Bijective", "Symbolic"} -> apply_Nonzero(sys, n)
      [] sys.kind = "Additive" -> apply_Additive(sys, n)
      [] sys.kind = "ZeroableFixed" -> apply_ZeroableFixed(sys, n)
      [] sys.kind = "NonZeroableFixed" -> apply_NonZeroableFixed(sys, n)

---------------------------------------------------------------------------
(* Display for RepresentedNumber: fmt                                      *)
(*                                                                         *)
(* What a call of fmt did: the text written to the formatter so far (out), *)
(* the table index of every symbol written (indices, counted from 0 as the *)
(* code counts), and the panic that ended it ("none": it returned Ok(())). *)

NothingWritten == [out |-> "", indices |-> <<>>]

\* write!(f, "{}", text), where text is the table's entry at index i
Write(w, text, i) == [out |-> w.out \o text, indices |-> Append(w.indices, i)]

Returned(w) == [panic |-> "none", out |-> w.out, indices |-> w.indices]
Panicked(w, why) == [panic |-> why, out |-> w.out, indices |-> w.indices]
NotFormatted == [panic |-> "not called", out |-> "", indices |-> <<>>]

\* The loop shared by the positional and the bijective branch:
\*   for _ in 0..size { msd = n / msd_place; write digits[msd];
\*                      n -= msd * msd_place; msd_place /= radix; }
RECURSIVE DigitLoop(_, _, _, _, _, _)
DigitLoop(digits, radix, n, msd_place, left, w) ==
    IF left = 0 THEN Returned(w)
    ELSE LET msd == Div(n, msd_place) IN
         IF msd < 0 THEN Panicked(w, TrapReason(msd))
         ELSE IF AsUsize(msd) >= Len(digits) THEN Panicked(w, "index out of bounds")
         ELSE LET w2 == Write(w, digits[AsUsize(msd) + 1], AsUsize(msd))
                  n2 == Sub(n, Mul(msd, msd_place))
                  place2 == Div(msd_place, radix)
              IN IF n2 < 0 THEN Panicked(w2, TrapReason(n2))
                 ELSE IF place2 < 0 THEN Panicked(w2, TrapReason(place2))
                 ELSE DigitLoop(digits, radix, n2, place2, left - 1, w2)

\* radix.pow(size - 1), size a u32: size - 1 overflows at 0, and wraps to
\* u32::MAX without overflow checks.
PlaceOfMsd(radix, size) ==
    IF size < 0 THEN size
    ELSE IF size >= 1 THEN Pow(radix, size - 1)
    ELSE IF overflow_checks THEN ArithmeticOverflow
    ELSE PowAllOnes(radix, U32Bits)

\* The digit count without the + 1.
PositionalSize_ilog(n, radix) == Ilog(n, radix)

\* let size = n.ilog(radix) + 1
PositionalSize(n, radix) == Add(Ilog(n, radix), 1)

fmt_Positional(digits, n) ==
    IF n = 0 THEN
        IF Len(digits) = 0 THEN Panicked(NothingWritten, "index out of bounds")
        ELSE Returned(Write(NothingWritten, digits[1], 0))
    ELSE LET radix == Len(digits)
             size == PositionalSize(n, radix)
             msd_place == PlaceOfMsd(radix, size)
         IN IF msd_place < 0 THEN Panicked(NothingWritten, TrapReason(msd_place))
            ELSE DigitLoop(digits, radix, n, msd_place, size, NothingWritten)

\* let size = ((n + 1) * (radix - 1)).ilog(radix)
BijectiveSize(n, radix) == Ilog(Mul(Add(n, 1), Sub(radix, 1)), radix)

\* (radix.pow(size) - 1) / (radix - 1)
BijectiveOffset(radix, size) == Div(Sub(Pow(radix, size), 1), Sub(radix, 1))

fmt_Bijective(digits, self_number) ==
    IF self_number = 0 THEN Panicked(NothingWritten, "assertion failed")
    ELSE LET radix == Len(digits)
             size == BijectiveSize(self_number, radix)
             n == Sub(self_number, BijectiveOffset(radix, size))
             msd_place == PlaceOfMsd(radix, size)
         IN IF size < 0 THEN Panicked(NothingWritten, TrapReason(size))
            ELSE IF n < 0 THEN Panicked(NothingWritten, TrapReason(n))
            ELSE IF msd_place < 0 THEN Panicked(NothingWritten, TrapReason(msd_place))
            ELSE DigitLoop(digits, radix, n, msd_place, size, NothingWritten)

\* The text of reps writes of the same text (built by halves).
RECURSIVE Copies(_, _)
Copies(text, reps) ==
    IF reps = 0 THEN ""
    ELSE LET half == Copies(text, reps \div 2)
         IN half \o half \o (IF reps % 2 = 1 THEN text ELSE "")

\* for _ in 0..reps { write!(f, "{}", numeral) }
Repeat(w, text, i, reps) ==
    [out |-> w.out \o Copies(text, reps),
     indices |-> w.indices \o [k \in 1..reps |-> i]]

\* Skipping also the numeral that fits exactly.
Skipped_exact(weight, n) == weight = 0 \/ weight >= n

\* if *weight == 0 || *weight > n { continue; }
Skipped(weight, n) == weight = 0 \/ weight > n

\* One write of a numeral that fits, however often it fits.
Reps_once(n, weight) == IF weight = 0 THEN DivideByZero ELSE 1

\* let reps = n / weight
Reps(n, weight) == Div(n, weight)

\* A remainder left at the end of the list reported.
AdditiveDone_checked(n, w) ==
    IF n = 0 THEN Returned(w) ELSE Panicked(w, "remainder left")

\* Ok(()) after the loop, whatever is left of n
AdditiveDone(n, w) == Returned(w)

\* Greedily add any symbol that fits: the loop over the numerals from entry i on.
RECURSIVE AdditiveLoop(_, _, _, _)
AdditiveLoop(numerals, i, n, w) ==
    IF i > Len(numerals) THEN AdditiveDone(n, w)
    ELSE LET numeral == numerals[i][1]
             weight == numerals[i][2]
         IN IF Skipped(weight, n)
            THEN AdditiveLoop(numerals, i + 1, n, w)
            ELSE LET reps == Reps(n, weight)
                     n2 == Sub(n, Mul(weight, reps))
                 IN AdditiveLoop(numerals, i + 1, n2, Repeat(w, numeral, i - 1, reps))

fmt_Additive(numerals, self_number) ==
    IF self_number = 0 THEN
        IF LastIsZero(numerals)
        THEN Returned(Write(NothingWritten, numerals[Len(numerals)][1], Len(numerals) - 1))
        ELSE Panicked(NothingWritten, "unreachable")
    ELSE AdditiveLoop(numerals, 1, self_number, NothingWritten)

\* The index without the - 1.
SymbolicIndex_from_one(n, symbol_count) == AsUsize(n % symbol_count)

\* symbols[((n - 1) % symbol_count) as usize]
SymbolicIndex(n, symbol_count) == AsUsize((n - 1) % symbol_count)

fmt_Symbolic(symbols, n) ==
    IF n = 0 THEN Panicked(NothingWritten, "assertion failed")
    ELSE LET symbol_count == Len(symbols)
             reps == DivCeil(n, symbol_count)
         IN IF reps < 0 THEN Panicked(NothingWritten, TrapReason(reps))
            ELSE Returned(Repeat(NothingWritten,
                                 symbols[SymbolicIndex(n, symbol_count) + 1],
                                 SymbolicIndex(n, symbol_count), reps))

\* symbols[self.number as usize]
fmt_ZeroableFixed(symbols, n) ==
    IF AsUsize(n) >= Len(symbols) THEN Panicked(NothingWritten, "index out of bounds")
    ELSE Returned(Write(NothingWritten, symbols[AsUsize(n) + 1], AsUsize(n)))

\* symbols[(self.number - 1) as usize]
fmt_NonZeroableFixed(symbols, n) ==
    LET i == Sub(n, 1) IN
    IF i < 0 THEN Panicked(NothingWritten, TrapReason(i))
    ELSE IF AsUsize(i) >= Len(symbols) THEN Panicked(NothingWritten, "index out of bounds")
    ELSE Returned(Write(NothingWritten, symbols[AsUsize(i) + 1], AsUsize(i)))

\* from_u64_to_chinese_ten_thousand of the chinese_number crate: total over u64,
\* and not part of this repository; its text is left opaque.
fmt_Chinese(variant, case, n) ==
    [panic |-> "none", out |-> "<chinese_number>", indices |-> <<>>]

fmt(sys, n) ==
    CASE sys.kind = "Positional" -> fmt_Positional(sys.symbols, n)
      [] sys.kind = "Bijective" -> fmt_Bijective(sys.symbols, n)
      [] sys.kind = "Additive" -> fmt_Additive(sys.numerals, n)
      [] sys.kind = "Symbolic" -> fmt_Symbolic(sys.symbols, n)
      [] sys.kind = "ZeroableFixed" -> fmt_ZeroableFixed(sys.symbols, n)
      [] sys.kind = "NonZeroableFixed" -> fmt_NonZeroableFixed(sys.symbols, n)
      [] sys.kind = "Chinese" -> fmt_Chinese(sys.variant, sys.chinese_case, n)

---------------------------------------------------------------------------
(* The predefined systems the claims name.                                 *)

ARABIC ==
    Positional(<<"0", "1", "2", "3", "4", "5", "6", "7", "8", "9">>)

\* The circled numbers 0..50, each one char.
CIRCLED_ARABIC ==
    ZeroableFixed(
      <<"(0)", "(1)", "(2)", "(3)", "(4)", "(5)", "(6)", "(7)", "(8)", "(9)",
      "(10)", "(11)", "(12)", "(13)", "(14)", "(15)", "(16)", "(17)", "(18)", "(19)",
      "(20)", "(21)", "(22)", "(23)", "(24)", "(25)", "(26)", "(27)", "(28)", "(29)",
      "(30)", "(31)", "(32)", "(33)", "(34)", "(35)", "(36)", "(37)", "(38)", "(39)",
      "(40)", "(41)", "(42)", "(43)", "(44)", "(45)", "(46)", "(47)", "(48)", "(49)",
      "(50)">>)

\* The double-circled numbers 1..10, each one char.
DOUBLE_CIRCLED_ARABIC ==
    NonZeroableFixed(
      <<"((1))", "((2))", "((3))", "((4))", "((5))", "((6))", "((7))", "((8))", "((9))", "((10))">>)

LOWER_LATIN ==
    Bijective(
      <<"a", "b", "c", "d", "e", "f", "g", "h", "i", "j", "k", "l", "m",
      "n", "o", "p", "q", "r", "s", "t", "u", "v", "w", "x", "y", "z">>)

UPPER_LATIN ==
    Bijective(
      <<"A", "B", "C", "D", "E", "F", "G", "H", "I", "J", "K", "L", "M",
      "N", "O", "P", "Q", "R", "S", "T", "U", "V", "W", "X", "Y", "Z">>)

LOWER_ROMAN ==
    Additive(
      <<<<"m~", 1000000>>, <<"d~", 500000>>, <<"c~", 100000>>, <<"l~", 50000>>,
      <<"x~", 10000>>, <<"v~", 5000>>, <<"i~v~", 4000>>, <<"m", 1000>>,
      <<"cm", 900>>, <<"d", 500>>, <<"cd", 400>>, <<"c", 100>>,
      <<"xc", 90>>, <<"l", 50>>, <<"xl", 40>>, <<"x", 10>>,
      <<"ix", 9>>, <<"v", 5>>, <<"iv", 4>>, <<"i", 1>>,
      <<"n", 0>>>>)

UPPER_ROMAN ==
    Additive(
      <<<<"M~", 1000000>>, <<"D~", 500000>>, <<"C~", 100000>>, <<"L~", 50000>>,
      <<"X~", 10000>>, <<"V~", 5000>>, <<"I~V~", 4000>>, <<"M", 1000>>,
      <<"CM", 900>>, <<"D", 500>>, <<"CD", 400>>, <<"C", 100>>,
      <<"XC", 90>>, <<"L", 50>>, <<"XL", 40>>, <<"X", 10>>,
      <<"IX", 9>>, <<"V", 5>>, <<"IV", 4>>, <<"I", 1>>,
      <<"N", 0>>>>)

\* '*', dagger, double dagger, section sign, pilcrow, double vertical line
SYMBOL ==
    Symbolic(<<"*", "<dagger>", "<ddagger>", "<section>", "<pilcrow>", "<dvline>">>)

LOWER_SIMPLIFIED_CHINESE == Chinese("Simple", "Lower")
UPPER_SIMPLIFIED_CHINESE == Chinese("Simple", "Upper")
LOWER_TRADITIONAL_CHINESE == Chinese("Traditional", "Lower")
UPPER_TRADITIONAL_CHINESE == Chinese("Traditional", "Upper")

---------------------------------------------------------------------------
(* The inputs.                                                             *)

\* The symbols of the generic tables.
Alphabet == <<"A", "B", "C", "D", "E", "F", "G", "H">>

\* The table of the first k symbols.
Table(k) == SubSeq(Alphabet, 1, k)

\* The numerals the generic additive lists are drawn from, by decreasing value.
AdditivePool ==
    << <<"X", 10>>, <<"IX", 9>>, <<"V", 5>>, <<"IV", 4>>, <<"I", 1>>, <<"N", 0>> >>

\* The pool's entries with an index in S, in the pool's order.
RECURSIVE Pick(_, _)
Pick(i, S) ==
    IF i > Len(AdditivePool) THEN <<>>
    ELSE (IF i \in S THEN <<AdditivePool[i]>> ELSE <<>>) \o Pick(i + 1, S)

ChineseSystems ==
    {LOWER_SIMPLIFIED_CHINESE, UPPER_SIMPLIFIED_CHINESE,
     LOWER_TRADITIONAL_CHINESE, UPPER_TRADITIONAL_CHINESE}

\* Every table of 0..MaxSymbols symbols under every kind that takes one, every
\* sublist of the pool as an additive list, and the four Chinese systems.
GenericSystems ==
    {Variant(k, Table(c)) :
        k \in {"Positional", "Bijective", "Symbolic", "ZeroableFixed", "NonZeroableFixed"},
        c \in 0..MaxSymbols}
    \cup {Additive(Pick(1, S)) : S \in SUBSET (1..Len(AdditivePool))}
    \cup ChineseSystems

CatalogSystems ==
    {ARABIC, CIRCLED_ARABIC, DOUBLE_CIRCLED_ARABIC, LOWER_LATIN, UPPER_LATIN,
     LOWER_ROMAN, UPPER_ROMAN, SYMBOL} \cup ChineseSystems

\* The largest number a catalogue system is run on.
CatalogMax(sys) ==
    CASE sys = ARABIC -> MaxArabic
      [] sys \in {LOWER_LATIN, UPPER_LATIN} -> MaxLatin
      [] sys \in {LOWER_ROMAN, UPPER_ROMAN} -> MaxRoman
      [] sys = SYMBOL -> MaxSymbolic
      [] OTHER -> MaxFixed

---------------------------------------------------------------------------
(* The state machine.                                                      *)

Start ==
    /\ overflow_checks \in BOOLEAN
    /\ pc = "start"
    /\ result = NotCalled
    /\ rendered = NotFormatted

\* Every generic system, the two fixed tables and SYMBOL, on every number of a
\* narrow word.
InitNarrow ==
    /\ bits = WordBits
    /\ system \in GenericSystems \cup {CIRCLED_ARABIC, DOUBLE_CIRCLED_ARABIC, SYMBOL}
    /\ number \in 0..(2 ^ WordBits - 1)
    /\ Start

\* The predefined systems on the numbers from 0 up, in a wide word.
InitCatalog ==
    /\ bits = WideBits
    /\ system \in CatalogSystems
    /\ number \in 0..CatalogMax(system)
    /\ Start

Init == InitNarrow \/ InitCatalog

\* system.apply(number)
Apply ==
    /\ pc = "start"
    /\ result' = apply(system, number)
    /\ pc' = "applied"
    /\ UNCHANGED <<system, number, bits, overflow_checks, rendered>>

\* to_string() on the RepresentedNumber apply returned: Display::fmt
to_string ==
    /\ pc = "applied"
    /\ result.tag = "Ok"
    /\ rendered' = fmt(result.system, result.number)
    /\ pc' = "formatted"
    /\ UNCHANGED <<system, number, bits, overflow_checks, result>>

Next == Apply \/ to_string

Spec == Init /\ [][Next]_vars

---------------------------------------------------------------------------
(* What the claims are measured against.                                   *)

Applied == pc \in {"applied", "formatted"}
Formatted == pc = "formatted"

\* The weights of an additive list decrease strictly.
StrictlyDecreasing(numerals) ==
    \A i \in 1..(Len(numerals) - 1) : numerals[i][2] > numerals[i + 1][2]

\* A well-formed definition: at least two digits for a positional or bijective
\* system, at least one symbol for a symbolic one, strictly decreasing weights
\* for an additive one, any table for a fixed one.
WellFormed(sys) ==
    CASE sys.kind \in {"Positional", "Bijective"} -> Len(sys.symbols) >= 2
      [] sys.kind = "Symbolic" -> Len(sys.symbols) >= 1
      [] sys.kind = "Additive" -> StrictlyDecreasing(sys.numerals)
      [] OTHER -> TRUE

\* The text of the table's entries at the given indices (counted from 0).
RECURSIVE TextOf(_, _)
TextOf(table, indices) ==
    IF indices = <<>> THEN ""
    ELSE table[Head(indices) + 1] \o TextOf(table, Tail(indices))

\* The number a big-endian digit sequence denotes in base r, each digit index
\* counting for itself plus off (0: positional, 1: bijective).
RECURSIVE ValueOf(_, _, _)
ValueOf(indices, r, off) ==
    IF indices = <<>> THEN 0
    ELSE ValueOf(SubSeq(indices, 1, Len(indices) - 1), r, off) * r
         + indices[Len(indices)] + off

\* floor(log_r(n)) + 1 for n >= 1: the least s with n < r^s.
RECURSIVE LeastPowerAbove(_, _, _)
LeastPowerAbove(n, r, s) ==
    IF n < r ^ s THEN s ELSE LeastPowerAbove(n, r, s + 1)

DigitCount(n, r) == LeastPowerAbove(n, r, 1)

\* Ordinary decimal formatting: u64's to_string.
RECURSIVE Decimal(_)
Decimal(n) ==
    IF n < 10 THEN ARABIC.symbols[n + 1]
    ELSE Decimal(n \div 10) \o ARABIC.symbols[(n % 10) + 1]

\* The n-th non-empty string over the digits, by length and then by symbol index
\* (n >= 1): its last symbol is the ((n - 1) mod r)-th, and what precedes it is
\* the ((n - 1) div r)-th string (the empty one for 0).
RECURSIVE ShortLex(_, _)
ShortLex(n, digits) ==
    IF n = 0 THEN ""
    ELSE ShortLex((n - 1) \div Len(digits), digits)
         \o digits[((n - 1) % Len(digits)) + 1]

\* str::to_uppercase on the text of the Latin letters.
UpperChar(c) ==
    IF \E i \in 1..26 : LOWER_LATIN.symbols[i] = c
    THEN UPPER_LATIN.symbols[CHOOSE i \in 1..26 : LOWER_LATIN.symbols[i] = c]
    ELSE c

RECURSIVE to_uppercase(_)
to_uppercase(s) ==
    IF Len(s) = 0 THEN ""
    ELSE UpperChar(SubSeq(s, 1, 1)) \o to_uppercase(SubSeq(s, 2, Len(s)))

\* What test_roman expects of 0..46.
ROMAN_TEST ==
    <<"n", "i", "ii", "iii", "iv", "v", "vi", "vii", "viii", "ix", "x", "xi",
      "xii", "xiii", "xiv", "xv", "xvi", "xvii", "xviii", "xix", "xx", "xxi",
      "xxii", "xxiii", "xxiv", "xxv", "xxvi", "xxvii", "xxviii", "xxix", "xxx",
      "xxxi", "xxxii", "xxxiii", "xxxiv", "xxxv", "xxxvi", "xxxvii", "xxxviii",
      "xxxix", "xl", "xli", "xlii", "xliii", "xliv", "xlv", "xlvi">>

\* The standard Roman numeral of 1..3999, digit by decimal digit.
RomanDigit(d, one, five, ten) ==
    <<"", one, one \o one, one \o one \o one, one \o five, five, five \o one,
      five \o one \o one, five \o one \o one \o one, one \o ten>>[d + 1]

StandardRoman(n) ==
    RomanDigit((n \div 1000) % 10, "m", "?", "?")
    \o RomanDigit((n \div 100) % 10, "c", "d", "m")
    \o RomanDigit((n \div 10) % 10, "x", "l", "c")
    \o RomanDigit(n % 10, "i", "v", "x")

\* ceil(n / k): the least c with c * k >= n.
CeilingOf(n, k) == CHOOSE c \in 0..n : c * k >= n /\ (c = 0 \/ (c - 1) * k < n)

\* s is c copies of text, one after the other, and nothing else.
IsCopies(s, text, c) ==
    /\ Len(s) = c * Len(text)
    /\ \A j \in 0..(c - 1) :
          SubSeq(s, j * Len(text) + 1, (j + 1) * Len(text)) = text

---------------------------------------------------------------------------
(* The claims.                                                             *)

\* C1: for an Additive system apply(n) succeeds if and only if n >= 1, or n = 0
\* and the last numeral has weight 0, and otherwise returns Zero; so a list with
\* no weight-0 last entry, such as V, IV, I, succeeds for every n >= 1.
C1_AdditiveAppliesToPositive ==
    (Applied /\ system.kind = "Additive" /\ Len(system.numerals) > 0) =>
        /\ (result.tag = "Ok") = (number >= 1 \/ LastIsZero(system.numerals))
        /\ (result.tag = "Err") => (result.err = "Zero")

\* C2: for a well-formed definition, whenever apply returns Ok the rendering
\* completes without failure (no index out of the table, no failed assertion, no
\* unreachable branch reached, no other panic); and whenever apply returns an
\* error nothing is rendered.
C2_ValidatorRendererAgreement ==
    /\ (Formatted /\ WellFormed(system)) => (rendered.panic = "none")
    /\ (Applied /\ result.tag = "Err") => (pc = "applied" /\ rendered = NotFormatted)

\* C3: a ZeroableFixed system of c symbols accepts exactly n < c, rejects the
\* rest with TooLarge, and renders n as the one symbol at index n; a
\* NonZeroableFixed one rejects 0 with Zero (also when c = 0) and n > c with
\* TooLarge, accepts 1..c, and renders n as the one symbol at index n - 1.
\* CIRCLED_ARABIC has 51 symbols and DOUBLE_CIRCLED_ARABIC 10.
C3_FixedBounds ==
    LET c == Len(system.symbols) IN
    /\ (Applied /\ system.kind = "ZeroableFixed") =>
          /\ (result.tag = "Ok") = (number < c)
          /\ (number >= c) => (result = Err("TooLarge"))
          /\ (number < c) => (result = Ok(system, number))
          /\ Formatted =>
                rendered = [panic |-> "none", out |-> system.symbols[number + 1],
                            indices |-> <<number>>]
    /\ (Applied /\ system.kind = "NonZeroableFixed") =>
          /\ (number = 0) => (result = Err("Zero"))
          /\ (number > c) => (result = Err("TooLarge"))
          /\ (1 <= number /\ number <= c) => (result = Ok(system, number))
          /\ Formatted =>
                rendered = [panic |-> "none", out |-> system.symbols[number],
                            indices |-> <<number - 1>>]
    /\ (Applied /\ system = CIRCLED_ARABIC) =>
          /\ c = 51
          /\ (result.tag = "Ok") = (number <= 50)
    /\ (Applied /\ system = DOUBLE_CIRCLED_ARABIC) =>
          /\ c = 10
          /\ (result.tag = "Ok") = (1 <= number /\ number <= 10)

\* CIRCLED_ARABIC rejects 51 as too large.
C3_Witness ==
    /\ pc = "applied" /\ system = CIRCLED_ARABIC /\ number = 51
    /\ result = Err("TooLarge")

\* C4: a Bijective or Symbolic system returns Zero for 0 and succeeds for every
\* n >= 1; a Positional or Chinese system succeeds for every n of the word.
C4_ZeroOnlyDomains ==
    Applied =>
        /\ system.kind \in {"Bijective", "Symbolic"} =>
              result = (IF number = 0 THEN Err("Zero") ELSE Ok(system, number))
        /\ system.kind \in {"Positional", "Chinese"} => result = Ok(system, number)

\* A bijective system has rejected 0.
C4_Witness ==
    /\ pc = "applied" /\ system.kind = "Bijective" /\ number = 0
    /\ result = Err("Zero")

\* C5: a Positional system of r >= 2 digits renders 0 as the symbol at index 0
\* and n > 0 as floor(log_r(n)) + 1 symbols, the first not the zero digit, whose
\* indices are the base-r digits of n, most significant first; ARABIC renders n
\* as its ordinary decimal text.
C5_PositionalNotation ==
    (Formatted /\ system.kind = "Positional" /\ Len(system.symbols) >= 2) =>
        LET r == Len(system.symbols) IN
        /\ rendered.panic = "none"
        /\ rendered.out = TextOf(system.symbols, rendered.indices)
        /\ (number = 0) => (rendered.indices = <<0>>)
        /\ (number > 0) =>
              /\ Len(rendered.indices) = DigitCount(number, r)
              /\ rendered.indices[1] # 0
              /\ \A i \in 1..Len(rendered.indices) : rendered.indices[i] \in 0..(r - 1)
              /\ ValueOf(rendered.indices, r, 0) = number
        /\ (system = ARABIC) => (rendered.out = Decimal(number))

\* ARABIC has rendered 9999.
C5_Witness ==
    Formatted /\ system = ARABIC /\ number = 9999 /\ rendered.out = "9999"

\* C6: a Bijective system of r >= 2 symbols renders every n >= 1 as the n-th
\* non-empty string over its symbols, by length and then by symbol index: the
\* indices d_1..d_s written satisfy sum (d_i + 1) * r^(s-i) = n.
C6_BijectiveEnumeration ==
    (Formatted /\ system.kind = "Bijective" /\ Len(system.symbols) >= 2) =>
        /\ rendered.panic = "none"
        /\ rendered.out = ShortLex(number, system.symbols)
        /\ rendered.out = TextOf(system.symbols, rendered.indices)
        /\ ValueOf(rendered.indices, Len(system.symbols), 1) = number

\* C7: LOWER_ROMAN renders 0 as "n" and every n from 1 up as the standard Roman
\* numeral with subtractive pairs (0..46 as test_roman lists them, 4 as "iv", 9
\* as "ix", 40 as "xl", 1994 as "mcmxciv"); UPPER_ROMAN renders the same text in
\* upper case.
C7_CanonicalRoman ==
    (Formatted /\ system \in {LOWER_ROMAN, UPPER_ROMAN}) =>
        LET lower == IF number = 0 THEN "n" ELSE StandardRoman(number)
            expect == IF system = LOWER_ROMAN THEN lower ELSE to_uppercase(lower)
        IN /\ rendered.panic = "none"
           /\ rendered.out = expect
           /\ (number <= 46) => (lower = ROMAN_TEST[number + 1])
           /\ (number = 4) => (lower = "iv")
           /\ (number = 9) => (lower = "ix")
           /\ (number = 40) => (lower = "xl")
           /\ (number = 1994) => (lower = "mcmxciv")

\* LOWER_ROMAN has rendered 1994.
C7_Witness ==
    Formatted /\ system = LOWER_ROMAN /\ number = 1994 /\ rendered.out = "mcmxciv"

\* C8: a Symbolic system of k >= 1 symbols renders every n >= 1 as exactly
\* ceil(n / k) copies of the symbol at index (n - 1) mod k; SYMBOL renders 1 as
\* one copy of symbol 0, 6 as one of symbol 5, 7 as two of symbol 0, 12 as two
\* of symbol 5, 13 as three of symbol 0.
C8_SymbolicCycling ==
    (Formatted /\ system.kind = "Symbolic" /\ Len(system.symbols) >= 1) =>
        LET k == Len(system.symbols)
            c == CeilingOf(number, k)
            i == (number - 1) % k
        IN /\ number >= 1
           /\ rendered.panic = "none"
           /\ rendered.indices = [j \in 1..c |-> i]
           /\ IsCopies(rendered.out, system.symbols[i + 1], c)
           /\ (system = SYMBOL) =>
                 /\ k = 6
                 /\ (number = 1) => (rendered.indices = <<0>>)
                 /\ (number = 6) => (rendered.indices = <<5>>)
                 /\ (number = 7) => (rendered.indices = <<0, 0>>)
                 /\ (number = 12) => (rendered.indices = <<5, 5>>)
                 /\ (number = 13) => (rendered.indices = <<0, 0, 0>>)

\* SYMBOL has rendered 13 as three copies of its first symbol.
C8_Witness ==
    Formatted /\ system = SYMBOL /\ number = 13 /\ rendered.out = "***"

\* C9: a Bijective system of exactly one symbol accepts every n >= 1 and
\* renders it without a panic.
C9_UnaryBijectiveRenders ==
    (system.kind = "Bijective" /\ Len(system.symbols) = 1 /\ number >= 1) =>
        /\ Applied => (result.tag = "Ok")
        /\ Formatted => (rendered.panic = "none")

\* C10: for a Bijective system of r >= 2 symbols and every n from 1 to the
\* largest number of the word, n + 1, (n + 1) * (r - 1), r^size and r^(size-1)
\* stay within the word, so that the rendering is the one unbounded integers
\* give.
C10_BijectiveFitsTheWord ==
    (Formatted /\ system.kind = "Bijective" /\ Len(system.symbols) >= 2) =>
        LET r == Len(system.symbols)
            product == (number + 1) * (r - 1)
            size == DigitCount(product, r) - 1
        IN /\ number + 1 < Modulus
           /\ product < Modulus
           /\ r ^ size < Modulus
           /\ r ^ (size - 1) < Modulus
           /\ rendered.panic = "none"
           /\ Len(rendered.indices) = size
           /\ rendered.out = ShortLex(number, system.symbols)

---------------------------------------------------------------------------
(* Additive lists: what was written, counted by entry.                     *)

\* How often the entry at index i (counted from 0) was written.
Emitted(indices, i) == Cardinality({k \in 1..Len(indices) : indices[k] = i})

\* The sum of the weights of the symbols written from the first count entries.
RECURSIVE EmittedWeight(_, _, _)
EmittedWeight(numerals, indices, count) ==
    IF count = 0 THEN 0
    ELSE EmittedWeight(numerals, indices, count - 1)
         + numerals[count][2] * Emitted(indices, count - 1)

\* The texts of an additive list.
Numerals(numerals) == [i \in 1..Len(numerals) |-> numerals[i][1]]

\* The indices never decrease: the symbols come in the list's order.
InListOrder(indices) ==
    \A k \in 1..(Len(indices) - 1) : indices[k] <= indices[k + 1]

HasWeight(numerals, weight) == \E i \in 1..Len(numerals) : numerals[i][2] = weight

\* C11: for an Additive list of strictly decreasing weights with an entry of
\* weight 1 and a last entry of weight 0, and every n >= 1: the weights of the
\* symbols written sum to n, the symbols come in list order, the entry of weight
\* w is written floor(rem / w) times, rem being n less what was written for the
\* entries before it, and the entry of weight 0 is never written.
C11_GreedyDecompositionExact ==
    (/\ Formatted /\ system.kind = "Additive" /\ number >= 1
     /\ StrictlyDecreasing(system.numerals)
     /\ HasWeight(system.numerals, 1)
     /\ LastIsZero(system.numerals)) =>
        LET numerals == system.numerals
            indices == rendered.indices
        IN /\ rendered.panic = "none"
           /\ rendered.out = TextOf(Numerals(numerals), indices)
           /\ EmittedWeight(numerals, indices, Len(numerals)) = number
           /\ InListOrder(indices)
           /\ \A i \in 1..Len(numerals) :
                LET w == numerals[i][2]
                    rem == number - EmittedWeight(numerals, indices, i - 1)
                IN IF w = 0 THEN Emitted(indices, i - 1) = 0
                   ELSE Emitted(indices, i - 1) = rem \div w

\* The list X, IX, V, IV, I, N has rendered 39 as three X and one IX.
C11_Witness ==
    /\ Formatted /\ number = 39
    /\ system = Additive(AdditivePool)
    /\ rendered.out = "XXXIX"
    /\ rendered.indices = <<0, 0, 0, 1>>

\* What the greedy loop leaves of n after the entries from index i on: n modulo
\* each positive weight in turn.
RECURSIVE GreedyRemainder(_, _, _)
GreedyRemainder(numerals, i, n) ==
    IF i > Len(numerals) THEN n
    ELSE IF numerals[i][2] = 0 THEN GreedyRemainder(numerals, i + 1, n)
    ELSE GreedyRemainder(numerals, i + 1, n % numerals[i][2])

\* C12: for an Additive list whose last entry has weight 0 and an n >= 1 that
\* the greedy pass over the weights leaves a remainder of, apply returns Ok and
\* the rendering returns without a panic, having written symbols whose weights
\* sum to n less the remainder, which is less than n (nothing at all where no
\* weight fits); the remainder is dropped.
C12_SilentTruncation ==
    (/\ Applied /\ system.kind = "Additive" /\ number >= 1
     /\ LastIsZero(system.numerals)
     /\ GreedyRemainder(system.numerals, 1, number) # 0) =>
        LET numerals == system.numerals
            left == GreedyRemainder(numerals, 1, number)
            written == EmittedWeight(numerals, rendered.indices, Len(numerals))
        IN /\ result = Ok(system, number)
           /\ Formatted =>
                 /\ rendered.panic = "none"
                 /\ rendered.out = TextOf(Numerals(numerals), rendered.indices)
                 /\ written = number - left
                 /\ written < number
                 /\ (\A j \in 1..Len(numerals) :
                        numerals[j][2] = 0 \/ numerals[j][2] > number)
                       => rendered.out = ""

\* The list V, N has rendered 7 as one V, and 2 is lost.
C12_Witness ==
    /\ Formatted /\ number = 7
    /\ system = Additive(<< <<"V", 5>>, <<"N", 0>> >>)
    /\ rendered.panic = "none"
    /\ rendered.out = "V"

---------------------------------------------------------------------------
(* Uniqueness of representations.                                          *)

\* system.apply(m) and, where it returns Ok, to_string() on what it returned.
Rendering(sys, m) ==
    LET applied == apply(sys, m)
    IN IF applied.tag = "Ok" THEN fmt(applied.system, applied.number)
       ELSE NotFormatted

\* m is rendered, without a panic, as text.
RendersAs(sys, m, text) ==
    Rendering(sys, m).panic = "none" /\ Rendering(sys, m).out = text

Distinct(symbols) ==
    \A i, j \in 1..Len(symbols) : symbols[i] = symbols[j] => i = j

\* The strings of one or two of the symbols.
ShortStrings(symbols) ==
    {symbols[i] : i \in 1..Len(symbols)}
    \cup {symbols[i] \o symbols[j] : i, j \in 1..Len(symbols)}

\* C13: a Bijective system of r >= 2 distinct symbols never renders two
\* different n >= 1 as the same string, and renders some n as every non-empty
\* string over its symbols (here: every string of one or two symbols); a
\* Positional system of distinct digits never renders two different n as the
\* same string. Every pair of numbers of the narrow word is compared; the
\* second part does not depend on the number rendered and is evaluated at 1.
C13_UniqueRepresentations ==
    (/\ Formatted /\ bits = WordBits
     /\ system.kind \in {"Bijective", "Positional"}
     /\ Distinct(system.symbols)
     /\ system.kind = "Bijective" => (Len(system.symbols) >= 2 /\ number >= 1)) =>
        LET least == IF system.kind = "Bijective" THEN 1 ELSE 0
        IN /\ rendered.panic = "none" =>
                 \A m \in least..(Modulus - 1) :
                    m # number => ~RendersAs(system, m, rendered.out)
           /\ (system.kind = "Bijective" /\ number = 1) =>
                 \A text \in ShortStrings(system.symbols) :
                    \E m \in 1..(Modulus - 1) : RendersAs(system, m, text)

===========================================================================
